---- MODULE Spec2Model ----
(***************************************************************************)
(* Model of VideoRetrievalUI (src/video_retrieval_ui_v2.py): the search    *)
(* workers started by process_search, the hand-off of their outcome to the *)
(* Tk event loop, the Result Set (retrieved_images / selected_images) and  *)
(* the CSV export.                                                         *)
(*                                                                         *)
(* Strings are TLA+ strings; Python's None is the value PyNone.            *)
(***************************************************************************)
EXTENDS Integers, Sequences, FiniteSets, TLC

(***************************************************************************)
(* Bounds of the model.                                                    *)
(***************************************************************************)
\* number of worker threads process_search may start in one run
MaxSearches == 2
\* number of generate_csv calls that reach create_csv_file in one run
MaxExports == 1
\* number of exports in one run of the specification of repeated exports
MaxArchive == 2
\* number of searches in one run of the specification of query dispatch
MaxDispatch == 1
\* a keyframes directory of the generated datasets holds 0..MaxKeyframes
\* .jpg files
MaxKeyframes == 11
\* a media-info listing of the generated datasets holds 1..MaxMediaFiles files
MaxMediaFiles == 3
\* the texts given to remove_punctuations have up to MaxText characters
MaxText == 5
\* the wall clock runs over the seconds 0..MaxClock
MaxClock == 1
\* the check boxes of the first MaxToggle displayed records are clicked
MaxToggle == 1

(***************************************************************************)
(* Program constants.                                                      *)
(***************************************************************************)
\* for i in range(20)
MockCount == 20
\* keyframe_files[:10]
KeyframeCap == 10
\* i // 5 in the mock generator
MockFramesPerVideo == 5

PyNone == "<None>"
\* None where the program otherwise holds a dict
PyNoneDict == [ none |-> TRUE ]

(***************************************************************************)
(* Python string functions used by the program.                            *)
(***************************************************************************)
Char(s, i) == SubSeq(s, i, i)

Whitespace == {" ", "\t", "\n", "\r"}

RECURSIVE LStrip(_)
LStrip(s) ==
    IF Len(s) > 0 /\ Char(s, 1) \in Whitespace
    THEN LStrip(SubSeq(s, 2, Len(s)))
    ELSE s

RECURSIVE RStrip(_)
RStrip(s) ==
    IF Len(s) > 0 /\ Char(s, Len(s)) \in Whitespace
    THEN RStrip(SubSeq(s, 1, Len(s) - 1))
    ELSE s

\* str.strip()
Strip(s) == RStrip(LStrip(s))

\* string.punctuation, but for the grave accent, which a TLA+ string cannot
\* hold
Punctuation == "!\"#$%&'()*+,-./:;<=>?@[\\]^_{|}~"

\* char in string.punctuation
IsPunctuation(c) == \E i \in 1..Len(Punctuation) : Char(Punctuation, i) = c

RECURSIVE RemovePunctuation(_)
\* ''.join(char for char in s if char not in string.punctuation)
RemovePunctuation(s) ==
    IF Len(s) = 0 THEN ""
    ELSE (IF IsPunctuation(Char(s, 1)) THEN "" ELSE Char(s, 1))
           \o RemovePunctuation(SubSeq(s, 2, Len(s)))

RECURSIVE WordLen(_)
\* the length of the run of characters at the start of s that are not
\* whitespace
WordLen(s) ==
    IF Len(s) = 0 \/ Char(s, 1) \in Whitespace THEN 0
    ELSE 1 + WordLen(SubSeq(s, 2, Len(s)))

RECURSIVE JoinSplit(_)
\* ' '.join(s.split())
JoinSplit(s) ==
    LET t == LStrip(s) IN
    IF Len(t) = 0 THEN ""
    ELSE LET n    == WordLen(t)
             rest == JoinSplit(SubSeq(t, n + 1, Len(t)))
         IN IF Len(rest) = 0 THEN SubSeq(t, 1, n)
            ELSE SubSeq(t, 1, n) \o " " \o rest

\* the cleaning with the two passes in the other order
CleanTextSpacesFirst(current_text) ==
    RemovePunctuation(JoinSplit(current_text))

\* cleaned_text of remove_punctuations for the stripped text of the box
CleanText(current_text) == JoinSplit(RemovePunctuation(current_text))

UpperLetters == "ABCDEFGHIJKLMNOPQRSTUVWXYZ"
LowerLetters == "abcdefghijklmnopqrstuvwxyz"

LowerChar(c) ==
    IF \E k \in 1..26 : Char(UpperLetters, k) = c
    THEN Char(LowerLetters, CHOOSE k \in 1..26 : Char(UpperLetters, k) = c)
    ELSE c

RECURSIVE Lower(_)
\* str.lower()
Lower(s) ==
    IF Len(s) = 0 THEN ""
    ELSE LowerChar(Char(s, 1)) \o Lower(SubSeq(s, 2, Len(s)))

\* q in s
IsSubstr(q, s) ==
    \/ Len(q) = 0
    \/ \E i \in 1..(Len(s) - Len(q) + 1) : SubSeq(s, i, i + Len(q) - 1) = q

\* s.endswith(suf)
EndsWith(s, suf) ==
    /\ Len(s) >= Len(suf)
    /\ SubSeq(s, Len(s) - Len(suf) + 1, Len(s)) = suf

\* index of the last "." of s, 0 when there is none
LastDot(s) ==
    IF \E i \in 1..Len(s) : Char(s, i) = "."
    THEN CHOOSE i \in 1..Len(s) :
            /\ Char(s, i) = "."
            /\ \A j \in (i + 1)..Len(s) : Char(s, j) # "."
    ELSE 0

\* os.path.splitext(name)[0] for a file name without directory part:
\* the extension starts at the last dot, leading dots do not count
SplitExt(name) ==
    LET d == LastDot(name) IN
    IF d > 1 /\ \E j \in 1..(d - 1) : Char(name, j) # "."
    THEN SubSeq(name, 1, d - 1)
    ELSE name

\* index of the last "/" of s, 0 when there is none
LastSep(s) ==
    IF \E i \in 1..Len(s) : Char(s, i) = "/"
    THEN CHOOSE i \in 1..Len(s) :
            /\ Char(s, i) = "/"
            /\ \A j \in (i + 1)..Len(s) : Char(s, j) # "/"
    ELSE 0

\* os.path.basename(path)
BaseName(path) == SubSeq(path, LastSep(path) + 1, Len(path))

\* f"{i:04d}" and f"{i:02d}"
Pad(i, width) ==
    LET s == ToString(i) IN
    IF Len(s) >= width THEN s
    ELSE SubSeq("0000", 1, width - Len(s)) \o s

(***************************************************************************)
(* The mock generator of call_backend_text.                                *)
(***************************************************************************)
\* one element of mock_results; the dict literal names "frame_id" twice and
\* Python keeps the later value, f"frame_{i:04d}"
MockRecord(i) ==
    [ frame_id   |-> "frame_" \o Pad(i, 4),
      video_name |-> "video_" \o ToString((i \div MockFramesPerVideo) + 1),
      image_url  |-> "https://picsum.photos/200/150?random=" \o ToString(i),
      metadata   |->
        [ video_name   |-> "sample_video_"
                             \o ToString((i \div MockFramesPerVideo) + 1)
                             \o ".mp4",
          frame_number |-> i * 10,
          timestamp    |-> "00:0" \o ToString(i \div 10) \o ":"
                             \o Pad((i * 6) % 60, 2) ] ]

MockResults == [ k \in 1..MockCount |-> MockRecord(k - 1) ]

(***************************************************************************)
(* The dataset directory the program reads (read-only input).              *)
(*   media_info_exists : os.path.exists(<root>/media-info)                 *)
(*   media_info        : os.listdir(<root>/media-info), in listing order;  *)
(*                       parses = json.load succeeds, data = the document  *)
(*   keyframes         : the directories <root>/keyframes/<video> with     *)
(*                       their os.listdir, in listing order                *)
(***************************************************************************)
DbMissing ==
    [ media_info_exists |-> FALSE,
      media_info        |-> << >>,
      keyframes         |-> << >> ]

DbTwo ==
    [ media_info_exists |-> TRUE,
      media_info        |->
        << [ name |-> "v1.json",   parses |-> TRUE,
             data |-> [ title |-> "Cat video" ] ],
           [ name |-> "notes.txt", parses |-> FALSE,
             data |-> [ title |-> "" ] ],
           [ name |-> "v2.json",   parses |-> TRUE,
             data |-> [ title |-> "cat and dog" ] ] >>,
      keyframes         |->
        << [ video |-> "v1", files |-> << "001.jpg", "002.jpg", "001.txt" >> ],
           [ video |-> "v2", files |-> << "001.jpg" >> ] >> ]

Databases == { DbMissing, DbTwo }

(***************************************************************************)
(* Generated datasets: every listing of 1..MaxMediaFiles of the files      *)
(* v1.json, v2.json and bad.json (which json.load rejects), and 0 to       *)
(* MaxKeyframes .jpg files, after a file that is no .jpg, in keyframes/v1. *)
(***************************************************************************)
MediaFileKinds ==
    { [ name |-> "v1.json",  parses |-> TRUE,
        data |-> [ title |-> "Cat video" ] ],
      [ name |-> "v2.json",  parses |-> TRUE,
        data |-> [ title |-> "cat and dog" ] ],
      [ name |-> "bad.json", parses |-> FALSE,
        data |-> [ title |-> "" ] ] }

\* os.listdir(media-info): the listings of distinct files
Listings ==
    UNION { { l \in [ 1..n -> MediaFileKinds ] :
                \A i, j \in 1..n : i # j => l[i] # l[j] } :
            n \in 1..(IF MaxMediaFiles < 3 THEN MaxMediaFiles ELSE 3) }

\* os.listdir(keyframes/v1) with n .jpg files
KeyframeFiles(n) == << "thumbs.db" >> \o [ k \in 1..n |-> Pad(k, 3) \o ".jpg" ]

DatasetStores ==
    { [ media_info_exists |-> TRUE,
        media_info        |-> l,
        keyframes         |->
          << [ video |-> "v1",  files |-> KeyframeFiles(n) ],
             [ video |-> "v2",  files |-> << "001.jpg" >> ],
             [ video |-> "bad", files |-> << "001.jpg" >> ] >> ] :
      l \in Listings, n \in 0..MaxKeyframes }

\* the queries typed against the generated datasets
DatasetQueries == { "cat", "dog" }

\* str(media_data) of the parsed document, a dict with the key "title"
PyStr(data) == "{'title': '" \o data.title \o "'}"

\* [f for f in files if f.endswith(suf)]
FilterSuffix(files, suf) == SelectSeq(files, LAMBDA f : EndsWith(f, suf))

\* os.path.exists(os.path.join(keyframes_path, video_name))
KeyframeFolderExists(db, video_name) ==
    \E k \in 1..Len(db.keyframes) : db.keyframes[k].video = video_name

\* os.listdir(keyframe_folder)
ListKeyframes(db, video_name) ==
    db.keyframes[CHOOSE k \in 1..Len(db.keyframes) :
                    db.keyframes[k].video = video_name].files

\* the listing without the limit
TakeAll(seq, n) == seq

\* keyframe_files[:10]
Take(seq, n) == SubSeq(seq, 1, IF Len(seq) < n THEN Len(seq) ELSE n)

\* the records one metadata file adds to results (body of the for loop)
RecordsOfMediaFile(db, text_query, media_file) ==
    LET video_name == SplitExt(media_file.name) IN
    IF ~media_file.parses THEN << >>
    ELSE IF ~IsSubstr(Lower(text_query), Lower(PyStr(media_file.data)))
    THEN << >>
    ELSE IF ~KeyframeFolderExists(db, video_name) THEN << >>
    ELSE
      LET keyframe_files ==
            Take(FilterSuffix(ListKeyframes(db, video_name), ".jpg"),
                 KeyframeCap)
      IN [ i \in 1..Len(keyframe_files) |->
             [ frame_id      |-> SplitExt(keyframe_files[i]),
               video_name    |-> video_name,
               keyframe_path |-> "keyframes/" \o video_name \o "/"
                                   \o keyframe_files[i],
               metadata      |->
                 [ video_name   |-> video_name \o ".mp4",
                   frame_number |-> i - 1,
                   media_info   |-> media_file.data ] ] ]

RECURSIVE ScanMediaFiles(_, _, _)
\* for media_file in media_files: ... results.append(...)
ScanMediaFiles(db, text_query, media_files) ==
    IF Len(media_files) = 0 THEN << >>
    ELSE RecordsOfMediaFile(db, text_query, Head(media_files))
           \o ScanMediaFiles(db, text_query, Tail(media_files))

Ok(value) == [ ok |-> TRUE, value |-> value, error |-> "" ]
Raise(msg) == [ ok |-> FALSE, value |-> << >>, error |-> msg ]

\* the search that takes a missing media-info folder for an empty one
search_database_text_empty(db, text_query) ==
    Ok(ScanMediaFiles(db, text_query,
         SelectSeq(db.media_info, LAMBDA f : EndsWith(f.name, ".json"))))

\* the search with a parse failure raised out of the loop
search_database_text_strict(db, text_query) ==
    IF ~db.media_info_exists
    THEN Raise("Database search failed: "
                 \o "Media info folder not found in database")
    ELSE IF \E k \in 1..Len(db.media_info) :
              EndsWith(db.media_info[k].name, ".json")
                /\ ~db.media_info[k].parses
    THEN Raise("Database search failed: Expecting value")
    ELSE Ok(ScanMediaFiles(db, text_query,
              SelectSeq(db.media_info,
                        LAMBDA f : EndsWith(f.name, ".json"))))

search_database_text(db, text_query) ==
    IF ~db.media_info_exists
    THEN Raise("Database search failed: "
                 \o "Media info folder not found in database")
    ELSE Ok(ScanMediaFiles(db, text_query,
              SelectSeq(db.media_info,
                        LAMBDA f : EndsWith(f.name, ".json"))))

search_database_image(db, image_path) ==
    search_database_text(db, "image_search")

search_database_multimodal(db, text_query, image_path) ==
    search_database_text(db, text_query)

call_backend_text(mock, db, text_query) ==
    IF ~mock THEN search_database_text(db, text_query)
    ELSE Ok(MockResults)

call_backend_multimodal(mock, db, text_query, image_path) ==
    IF ~mock THEN search_database_multimodal(db, text_query, image_path)
    ELSE call_backend_text(mock, db, "multimodal: " \o text_query)

call_backend_image(mock, db, image_path) ==
    IF ~mock THEN search_database_image(db, image_path)
    ELSE call_backend_text(mock, db, "uploaded image")

\* file_read: the outcome of open(txt_file_info['path']).read() when the
\* worker runs, Ok(contents) or Raise(message)
call_backend_txt_file(mock, db, txt_file_info, file_read) ==
    LET inner ==
          IF ~file_read.ok THEN file_read
          ELSE LET content == Strip(file_read.value) IN
               IF ~mock THEN search_database_text(db, content)
               ELSE call_backend_text(mock, db, content)
    IN IF inner.ok THEN inner
       ELSE Raise("Failed to process TXT file: " \o inner.error)

(***************************************************************************)
(* Inputs of the user and of the environment.                              *)
(***************************************************************************)
\* what the user types into the query box
TypedTexts == { "", "cat" }
\* the characters of the texts given to remove_punctuations
TextAlphabet == { "a", ",", " ", "\n" }

RECURSIVE TextsUpTo(_)
\* the texts over TextAlphabet of up to n characters
TextsUpTo(n) ==
    IF n = 0 THEN { "" }
    ELSE LET shorter == TextsUpTo(n - 1) IN
         shorter \cup { t \o c : t \in shorter, c \in TextAlphabet }

\* the contents of the query box when "Remove punctuations" is pressed
PunctuatedTexts == TextsUpTo(MaxText) \cup { "a, b!  c" }
\* what the user types into the answer box
TypedAnswers == { "", "  ", "yes" }
Tasks == { "KIS", "QnA", "TRAKE" }
\* the text files the file dialog offers, with their contents on disk
TxtFilesOnDisk == { [ path |-> "/q/query-qa.txt", contents |-> " dog\n" ] }
\* the image files the file dialog offers
ImagePaths == { "/q/shot.png" }
\* a frame id no search of this model produces
GhostId == "ghost"

(***************************************************************************)
(* State.                                                                  *)
(***************************************************************************)
VARIABLES
    use_mock_data,       \* self.use_mock_data, set once by main()
    database,            \* the directory at self.database_path
    text_entry,          \* contents of self.text_entry
    answer_entry,        \* contents of self.answer_entry
    current_task,        \* self.current_task
    uploaded_txt_file,   \* self.uploaded_txt_file, PyNoneDict or the dict
    uploaded_image_path, \* self.uploaded_image_path, PyNone or a path
    retrieved_images,    \* self.retrieved_images
    selected_images,     \* self.selected_images
    status_label,        \* text of self.status_label
    threads,             \* the worker threads process_search has started
    after_queue,         \* callbacks scheduled with root.after(0, ...)
    clock,               \* the second the last datetime.now() returned
    output_dirs,         \* directories under output_csv
    output_files,        \* the files under output_csv: [dir, name]
    csv_written,         \* the file the last handler wrote, with its rows
    n_exports,           \* calls of create_csv_file so far
    dialog,              \* the message box the last handler showed
    last_toggle          \* observer: the last operation on the Result Set
                         \* and the selection it started from

vars == << use_mock_data, database, text_entry, answer_entry, current_task,
           uploaded_txt_file, uploaded_image_path, retrieved_images,
           selected_images, status_label, threads, after_queue, clock,
           output_dirs, output_files, csv_written, n_exports, dialog,
           last_toggle >>

config_vars == << use_mock_data, database >>
input_vars  == << text_entry, answer_entry, current_task,
                  uploaded_txt_file, uploaded_image_path >>
result_vars == << retrieved_images, selected_images >>
search_vars == << threads, after_queue >>
export_vars == << output_dirs, output_files, n_exports >>

\* csv_written when the last handler wrote no file
NoFile == [ dir |-> "", name |-> "", rows |-> << >> ]

\* messagebox.showwarning / showinfo / showerror
NoDialog == [ kind |-> "none", text |-> "" ]
ShowWarning(text) == [ kind |-> "warning", text |-> text ]
ShowInfo(text) == [ kind |-> "info", text |-> text ]
ShowError(text) == [ kind |-> "error", text |-> text ]

\* last_toggle when the last operation on the Result Set was not a call
\* of toggle_selection; sel is the selection that operation started from
NotToggle(sel) == [ id |-> PyNone, on |-> FALSE, sel |-> sel,
                    round_trip |-> FALSE, sel0 |-> << >> ]
NoToggle == NotToggle(<< >>)

\* __init__ and main(): the configuration dialog fixes use_mock_data and
\* database_path before the main loop starts
Init ==
    /\ use_mock_data \in BOOLEAN
    /\ database \in Databases
    /\ use_mock_data => database = DbTwo
    /\ text_entry = ""
    /\ answer_entry = ""
    /\ current_task = "KIS"
    /\ uploaded_txt_file = PyNoneDict
    /\ uploaded_image_path = PyNone
    /\ retrieved_images = << >>
    /\ selected_images = << >>
    /\ status_label = "Ready"
    /\ threads = << >>
    /\ after_queue = << >>
    /\ clock = 0
    /\ output_dirs = {}
    /\ output_files = {}
    /\ csv_written = NoFile
    /\ n_exports = 0
    /\ dialog = NoDialog
    /\ last_toggle = NoToggle

(***************************************************************************)
(* The Result Set.                                                         *)
(***************************************************************************)
\* frame_id in self.selected_images
InList(id, list) == \E k \in 1..Len(list) : list[k] = id

\* list.remove(id): removes the first occurrence
ListRemove(list, id) ==
    LET k == CHOOSE j \in 1..Len(list) :
                 list[j] = id /\ \A h \in 1..(j - 1) : list[h] # id
    IN SubSeq(list, 1, k - 1) \o SubSeq(list, k + 1, Len(list))

\* toggle_selection that never removes an id
ToggleListNoRemove(sel, frame_id, is_selected) ==
    IF is_selected /\ ~InList(frame_id, sel) THEN Append(sel, frame_id)
    ELSE sel

\* the body of toggle_selection on the list sel
ToggleList(sel, frame_id, is_selected) ==
    IF is_selected /\ ~InList(frame_id, sel) THEN Append(sel, frame_id)
    ELSE IF ~is_selected /\ InList(frame_id, sel) THEN ListRemove(sel, frame_id)
    ELSE sel

\* [img['frame_id'] for img in self.retrieved_images]
FrameIds(records) == [ k \in 1..Len(records) |-> records[k].frame_id ]

\* update_selection_count
SelectionCount(sel) == "Selected " \o ToString(Len(sel)) \o " frames"

\* the frame ids toggle_selection is called with: those of the first
\* MaxToggle displayed records, and one that no record has
ToggleIds ==
    { retrieved_images[k].frame_id :
        k \in 1..(IF Len(retrieved_images) < MaxToggle
                  THEN Len(retrieved_images) ELSE MaxToggle) }
      \cup { GhostId }

toggle_selection(frame_id, is_selected) ==
    /\ selected_images' = ToggleList(selected_images, frame_id, is_selected)
    /\ status_label' = SelectionCount(selected_images')
    /\ dialog' = NoDialog
    /\ csv_written' = NoFile
    /\ UNCHANGED << config_vars, input_vars, retrieved_images, search_vars,
                    clock, export_vars >>

clear_selection ==
    /\ selected_images' = << >>
    /\ status_label' = SelectionCount(selected_images')
    /\ dialog' = NoDialog
    /\ csv_written' = NoFile
    /\ UNCHANGED << config_vars, input_vars, retrieved_images, search_vars,
                    clock, export_vars >>

\* select_all that adds the frame ids to the selection instead of replacing it
select_all_append ==
    /\ selected_images' = selected_images \o FrameIds(retrieved_images)
    /\ status_label' = SelectionCount(selected_images')
    /\ dialog' = NoDialog
    /\ csv_written' = NoFile
    /\ UNCHANGED << config_vars, input_vars, retrieved_images, search_vars,
                    clock, export_vars >>

select_all ==
    /\ selected_images' = FrameIds(retrieved_images)
    /\ status_label' = SelectionCount(selected_images')
    /\ dialog' = NoDialog
    /\ csv_written' = NoFile
    /\ UNCHANGED << config_vars, input_vars, retrieved_images, search_vars,
                    clock, export_vars >>

clear_all_inputs ==
    /\ text_entry' = ""
    /\ answer_entry' = ""
    /\ uploaded_txt_file' = PyNoneDict
    /\ uploaded_image_path' = PyNone
    /\ retrieved_images' = << >>
    /\ selected_images' = << >>
    /\ status_label' = "Ready"
    /\ dialog' = NoDialog
    /\ csv_written' = NoFile
    /\ UNCHANGED << config_vars, current_task, search_vars, clock,
                    export_vars >>

(***************************************************************************)
(* Callbacks of the Tk main loop.  ui is the part of the state a callback  *)
(* writes: [rec, sel, status] for retrieved_images, selected_images and    *)
(* the status label.                                                       *)
(***************************************************************************)
\* _update_results that keeps the old selection
_update_results_keep(ui, results) ==
    [ rec    |-> results,
      sel    |-> ui.sel,
      status |-> "Retrieved " \o ToString(Len(results)) \o " frames" ]

_update_results(ui, results) ==
    [ rec    |-> results,
      sel    |-> << >>,
      status |-> "Retrieved " \o ToString(Len(results)) \o " frames" ]

\* a failure callback that also empties the Result Set
error_lambda_clear(ui, error, unbound) ==
    IF unbound THEN ui
    ELSE [ rec |-> << >>, sel |-> << >>, status |-> "Error: " \o error ]

\* lambda: self.status_label.config(text=f"Error: {str(e)}").  The lambda
\* reads e of the worker's except clause, which the worker unbinds when it
\* leaves the clause: run after that (unbound) the lambda raises NameError
\* and the label keeps its text; run before, it shows the message.
error_lambda(ui, error, unbound) ==
    IF unbound THEN ui
    ELSE [ ui EXCEPT !.status = "Error: " \o error ]

RunCallback(ui, cb, unbound) ==
    IF cb.kind = "_update_results" THEN _update_results(ui, cb.results)
    ELSE error_lambda(ui, cb.error, unbound)

RECURSIVE RunCallbacks(_, _, _)
\* root.update(): every callback of the queue, in order; unbound[k] is the
\* outcome of the race for the k-th of them
RunCallbacks(ui, queue, unbound) ==
    IF Len(queue) = 0 THEN ui
    ELSE RunCallbacks(RunCallback(ui, Head(queue), Head(unbound)),
                      Tail(queue), Tail(unbound))

CurrentUi == [ rec |-> retrieved_images, sel |-> selected_images,
               status |-> status_label ]

SetUi(ui) ==
    /\ retrieved_images' = ui.rec
    /\ selected_images' = ui.sel
    /\ status_label' = ui.status

\* the main loop runs the oldest callback scheduled with root.after(0, ...)
mainloop_after ==
    /\ Len(after_queue) > 0
    /\ \E unbound \in BOOLEAN :
         SetUi(RunCallback(CurrentUi, Head(after_queue), unbound))
    /\ after_queue' = Tail(after_queue)
    /\ dialog' = NoDialog
    /\ csv_written' = NoFile
    /\ UNCHANGED << config_vars, input_vars, threads, clock, export_vars >>

(***************************************************************************)
(* Query input.                                                            *)
(***************************************************************************)
type_text(t) ==
    /\ text_entry' = t
    /\ dialog' = NoDialog
    /\ csv_written' = NoFile
    /\ UNCHANGED << config_vars, answer_entry, current_task,
                    uploaded_txt_file, uploaded_image_path, result_vars,
                    status_label, search_vars, clock, export_vars >>

\* the query box after remove_punctuations
CleanedEntry(text) ==
    LET current_text == Strip(text) IN
    IF current_text = "" THEN text ELSE CleanText(current_text)

remove_punctuations ==
    /\ text_entry' = CleanedEntry(text_entry)
    /\ dialog' = IF Strip(text_entry) = "" THEN ShowInfo("No text to process")
                                            ELSE NoDialog
    /\ csv_written' = NoFile
    /\ UNCHANGED << config_vars, answer_entry, current_task,
                    uploaded_txt_file, uploaded_image_path, result_vars,
                    status_label, search_vars, clock, export_vars >>

type_answer(a) ==
    /\ answer_entry' = a
    /\ dialog' = NoDialog
    /\ csv_written' = NoFile
    /\ UNCHANGED << config_vars, text_entry, current_task,
                    uploaded_txt_file, uploaded_image_path, result_vars,
                    status_label, search_vars, clock, export_vars >>

\* the task radio buttons
choose_task(t) ==
    /\ current_task' = t
    /\ dialog' = NoDialog
    /\ csv_written' = NoFile
    /\ UNCHANGED << config_vars, text_entry, answer_entry,
                    uploaded_txt_file, uploaded_image_path, result_vars,
                    status_label, search_vars, clock, export_vars >>

upload_image(file_path) ==
    /\ uploaded_image_path' = file_path
    /\ dialog' = NoDialog
    /\ csv_written' = NoFile
    /\ UNCHANGED << config_vars, text_entry, answer_entry, current_task,
                    uploaded_txt_file, result_vars, status_label,
                    search_vars, clock, export_vars >>

\* the task the file name selects, current when it names none
DetectTask(filename, current) ==
    LET filename_lower == Lower(filename) IN
    IF IsSubstr("kis", filename_lower) THEN "KIS"
    ELSE IF IsSubstr("qa", filename_lower) \/ IsSubstr("qna", filename_lower)
    THEN "QnA"
    ELSE IF IsSubstr("trake", filename_lower) THEN "TRAKE"
    ELSE current

\* file: the file chosen in the dialog; file_read: the outcome of reading it
upload_txt_file(file, file_read) ==
    /\ IF file_read.ok
       THEN LET content  == Strip(file_read.value)
                filename == BaseName(file.path)
            IN /\ uploaded_txt_file' =
                    [ path      |-> file.path,
                      name      |-> filename,
                      base_name |-> SplitExt(filename),
                      content   |-> content ]
               /\ text_entry' = content
               /\ current_task' = DetectTask(filename, current_task)
               /\ dialog' = NoDialog
       ELSE /\ dialog' = ShowError("Failed to load TXT file: "
                                     \o file_read.error)
            /\ UNCHANGED << uploaded_txt_file, text_entry, current_task >>
    /\ csv_written' = NoFile
    /\ UNCHANGED << config_vars, answer_entry, uploaded_image_path,
                    result_vars, status_label, search_vars, clock,
                    export_vars >>

\* the outcomes of open(path).read(): the file's contents, or an error
FileReads(file) ==
    { Ok(file.contents),
      Raise("[Errno 2] No such file or directory: '" \o file.path \o "'") }

(***************************************************************************)
(* Search: process_search on the UI thread, _run_search on a worker.       *)
(***************************************************************************)
\* the dict query_data: a function on the keys that are present
QueryData(text_query, image_path, txt_file) ==
    [ k \in (IF text_query # "" THEN { "text" } ELSE {})
              \cup (IF image_path # PyNone THEN { "image_path" } ELSE {})
              \cup (IF txt_file # PyNoneDict THEN { "txt_file" } ELSE {}) |->
        CASE k = "text"       -> text_query
          [] k = "image_path" -> image_path
          [] k = "txt_file"   -> txt_file ]

process_search ==
    LET text_query == Strip(text_entry)
        has_text   == text_query # ""
        has_image  == uploaded_image_path # PyNone
        has_txt    == uploaded_txt_file # PyNoneDict
    IN
    /\ IF ~has_text /\ ~has_image /\ ~has_txt
       THEN /\ dialog' = ShowWarning("Please provide at least one input: "
                                       \o "text, image, or TXT file")
            /\ UNCHANGED << result_vars, status_label, search_vars >>
       ELSE /\ Len(threads) < MaxSearches
            \* status "Processing...", then root.update() runs the queue
            /\ \E unbound \in [ 1..Len(after_queue) -> BOOLEAN ] :
                 SetUi(RunCallbacks(
                         [ CurrentUi EXCEPT !.status = "Processing..." ],
                         after_queue, unbound))
            /\ after_queue' = << >>
            /\ threads' = Append(threads,
                 [ query_data |-> QueryData(text_query, uploaded_image_path,
                                            uploaded_txt_file),
                   pc         |-> "running",
                   handoffs   |-> << >> ])
            /\ dialog' = NoDialog
    /\ csv_written' = NoFile
    /\ UNCHANGED << config_vars, input_vars, clock, export_vars >>

HasKey(d, k) == k \in DOMAIN d

\* the dispatch that tries the text box before the uploaded text file
DispatchTextFirst(mock, db, query_data, file_read) ==
    IF HasKey(query_data, "text") /\ HasKey(query_data, "image_path")
    THEN call_backend_multimodal(mock, db, query_data["text"],
                                 query_data["image_path"])
    ELSE IF HasKey(query_data, "text")
    THEN call_backend_text(mock, db, query_data["text"])
    ELSE IF HasKey(query_data, "txt_file")
    THEN call_backend_txt_file(mock, db, query_data["txt_file"], file_read)
    ELSE IF HasKey(query_data, "image_path")
    THEN call_backend_image(mock, db, query_data["image_path"])
    ELSE Raise("No valid input provided")

\* the try block of _run_search up to the hand-off: the backend call the
\* keys of query_data select
Dispatch(mock, db, query_data, file_read) ==
    IF HasKey(query_data, "txt_file")
    THEN call_backend_txt_file(mock, db, query_data["txt_file"], file_read)
    ELSE IF HasKey(query_data, "text") /\ HasKey(query_data, "image_path")
    THEN call_backend_multimodal(mock, db, query_data["text"],
                                 query_data["image_path"])
    ELSE IF HasKey(query_data, "text")
    THEN call_backend_text(mock, db, query_data["text"])
    ELSE IF HasKey(query_data, "image_path")
    THEN call_backend_image(mock, db, query_data["image_path"])
    ELSE Raise("No valid input provided")

\* _run_search whose except clause schedules nothing
HandoffsSwallow(n, outcome) ==
    IF outcome.ok
    THEN << [ req |-> n, kind |-> "_update_results",
              results |-> outcome.value, error |-> "" ] >>
    ELSE << >>

\* the callbacks _run_search passes to root.after(0, ...) for an outcome
Handoffs(n, outcome) ==
    IF outcome.ok
    THEN << [ req |-> n, kind |-> "_update_results",
              results |-> outcome.value, error |-> "" ] >>
    ELSE << [ req |-> n, kind |-> "error_lambda",
              results |-> << >>, error |-> outcome.error ] >>

\* the file at a path of the dialog's files
FileAt(path) == CHOOSE f \in TxtFilesOnDisk : f.path = path

\* the outcomes open(path).read() can have for the worker's query
WorkerReads(query_data) ==
    IF HasKey(query_data, "txt_file")
    THEN FileReads(FileAt(query_data["txt_file"].path))
    ELSE { Ok("") }

\* worker n runs _run_search to its end
_run_search(n) ==
    /\ threads[n].pc = "running"
    /\ \E file_read \in WorkerReads(threads[n].query_data) :
         LET outcome == Dispatch(use_mock_data, database,
                                 threads[n].query_data, file_read)
             cbs     == Handoffs(n, outcome)
         IN /\ after_queue' = after_queue \o cbs
            \* the thread ends: its query_data is gone
            /\ threads' = [ threads EXCEPT ![n] =
                 [ query_data |-> << >>,
                   pc         |-> "done",
                   handoffs   |-> [ k \in 1..Len(cbs) |-> cbs[k].kind ] ] ]
    /\ UNCHANGED << config_vars, input_vars, result_vars, status_label,
                    clock, export_vars, csv_written, dialog >>

(***************************************************************************)
(* Export: generate_csv and create_csv_file.                               *)
(***************************************************************************)
\* datetime.now().strftime("%Y%m%d_%H%M%S") at second t of the run
Strftime(t) == "20250101_0000" \o Pad(t, 2)

\* the seconds datetime.now() can return: the clock never runs backwards
Nows == clock..MaxClock

\* the resolution that prefers the record's own video_name
VideoNameOfOwn(img) ==
    IF "video_name" \in DOMAIN img THEN img.video_name
    ELSE IF "metadata" \in DOMAIN img /\ "video_name" \in DOMAIN img.metadata
    THEN img.metadata.video_name
    ELSE "unknown"

\* img.get('metadata', {}).get('video_name', img.get('video_name', 'unknown'))
VideoNameOf(img) ==
    IF "metadata" \in DOMAIN img /\ "video_name" \in DOMAIN img.metadata
    THEN img.metadata.video_name
    ELSE IF "video_name" \in DOMAIN img THEN img.video_name
    ELSE "unknown"

\* [img for img in self.retrieved_images
\*      if img['frame_id'] in self.selected_images]
SelectedData(records, sel) ==
    SelectSeq(records, LAMBDA img : InList(img.frame_id, sel))

KisRows(selected_data) ==
    [ k \in 1..Len(selected_data) |->
        << VideoNameOf(selected_data[k]), selected_data[k].frame_id >> ]

QnaRows(selected_data, answer) ==
    [ k \in 1..Len(selected_data) |->
        << VideoNameOf(selected_data[k]), selected_data[k].frame_id,
           answer >> ]

RECURSIVE GroupByVideo(_, _)
\* the dict videos after the grouping loop, as the sequence of its items
\* [name, frames] in insertion order; groups is the dict so far
GroupByVideo(selected_data, groups) ==
    IF Len(selected_data) = 0 THEN groups
    ELSE
      LET img        == Head(selected_data)
          video_name == VideoNameOf(img)
          known      == \E g \in 1..Len(groups) : groups[g].name = video_name
          added      == IF known THEN groups
                        ELSE Append(groups,
                               [ name |-> video_name, frames |-> << >> ])
      IN GroupByVideo(Tail(selected_data),
           [ g \in 1..Len(added) |->
               IF added[g].name = video_name
               THEN [ added[g] EXCEPT !.frames = Append(@, img.frame_id) ]
               ELSE added[g] ])

MaxOf(S) == CHOOSE m \in S : \A n \in S : n <= m

TrakeRows(selected_data) ==
    IF Len(selected_data) = 0 THEN << >>
    ELSE
      LET videos     == GroupByVideo(selected_data, << >>)
          max_frames == MaxOf({ Len(videos[g].frames) :
                                  g \in 1..Len(videos) })
      IN [ g \in 1..Len(videos) |->
             << videos[g].name >> \o videos[g].frames
               \o [ k \in 1..(max_frames - Len(videos[g].frames)) |-> "" ] ]

\* the rows create_csv_file writes
CsvRows(task, records, sel, answer) ==
    LET selected_data == SelectedData(records, sel) IN
    IF task = "KIS" THEN KisRows(selected_data)
    ELSE IF task = "QnA" THEN QnaRows(selected_data, Strip(answer))
    ELSE IF task = "TRAKE" THEN TrakeRows(selected_data)
    ELSE << >>

\* output_dir below output_csv
OutputDir(timestamp, task) == timestamp \o "-" \o Lower(task)

\* filename
OutputName(txt_file, timestamp, task) ==
    IF txt_file # PyNoneDict THEN txt_file.base_name \o ".csv"
    ELSE timestamp \o "-" \o Lower(task) \o ".csv"

\* open(filepath, 'w'): the file is created, or truncated if it exists
OpenForWrite(files, dir, name) ==
    files \cup { [ dir |-> dir, name |-> name ] }

\* the validation without .strip() on the answer
ValidateNoStrip(sel, task, answer) ==
    IF Len(sel) = 0 THEN ShowWarning("No frames selected")
    ELSE IF task = "QnA" /\ answer = ""
    THEN ShowWarning("Answer is required for QnA task")
    ELSE NoDialog

\* the validation of generate_csv: the warning it shows, NoDialog to go on
Validate(sel, task, answer) ==
    IF Len(sel) = 0 THEN ShowWarning("No frames selected")
    ELSE IF task = "QnA" /\ Strip(answer) = ""
    THEN ShowWarning("Answer is required for QnA task")
    ELSE NoDialog

\* create_csv_file(task) called at second now, its path handed to the
\* success message
create_csv_file(task, now) ==
    LET timestamp  == Strftime(now)
        output_dir == OutputDir(timestamp, task)
        filename   == OutputName(uploaded_txt_file, timestamp, task)
    IN /\ output_dirs' = output_dirs \cup { output_dir }
       /\ output_files' = OpenForWrite(output_files, output_dir, filename)
       /\ csv_written' =
            [ dir  |-> output_dir, name |-> filename,
              rows |-> CsvRows(task, retrieved_images, selected_images,
                               answer_entry) ]
       /\ n_exports' = n_exports + 1
       /\ clock' = now
       /\ dialog' = ShowInfo("CSV file generated successfully:\n"
                               \o output_dir \o "/" \o filename)

\* the bound on exports: generate_csv may run when it will reject the
\* export, or when fewer than max exports have been written
ExportCap(max) ==
    \/ n_exports < max
    \/ Validate(selected_images, current_task, answer_entry) # NoDialog

generate_csv(now) ==
    /\ IF Validate(selected_images, current_task, answer_entry) # NoDialog
       THEN /\ dialog' = Validate(selected_images, current_task,
                                  answer_entry)
            /\ csv_written' = NoFile
            /\ UNCHANGED << export_vars, clock >>
       ELSE create_csv_file(current_task, now)
    /\ UNCHANGED << config_vars, input_vars, result_vars, status_label,
                    search_vars >>

(***************************************************************************)
(* The observer last_toggle.  It is written by the specifications, not by  *)
(* the handlers: Spec records toggle_selection calls in it, the other      *)
(* specifications leave it alone.                                          *)
(***************************************************************************)
\* a call toggle_selection(frame_id, is_selected): its arguments, the
\* selection it started from, and whether it closes a round trip
\* toggle_selection(id, True); toggle_selection(id, False), with the
\* selection the round trip started from
ObserveToggle(frame_id, is_selected) ==
    last_toggle' =
      LET closes == /\ ~is_selected
                    /\ last_toggle.on
                    /\ last_toggle.id = frame_id
      IN [ id |-> frame_id, on |-> is_selected, sel |-> selected_images,
           round_trip |-> closes,
           sel0 |-> IF closes THEN last_toggle.sel ELSE << >> ]

\* a call select_all(): no frame id, every box set, and the selection the
\* call started from
ObserveSelectAll ==
    last_toggle' = [ NotToggle(selected_images) EXCEPT !.on = TRUE ]

\* any other step: the record is kept while the Result Set is untouched
ObserveOther ==
    last_toggle' = IF UNCHANGED result_vars THEN last_toggle
                   ELSE NotToggle(selected_images)

(***************************************************************************)
(* Specifications.                                                         *)
(***************************************************************************)
\* Spec: the Result Set under searches by typed text
Next == \/ \E t \in TypedTexts : type_text(t) /\ ObserveOther
        \/ process_search /\ ObserveOther
        \/ \E n \in 1..Len(threads) : _run_search(n) /\ ObserveOther
        \/ mainloop_after /\ ObserveOther
        \/ \E id \in ToggleIds, on \in BOOLEAN :
             toggle_selection(id, on) /\ ObserveToggle(id, on)
        \/ clear_selection /\ ObserveOther
        \/ select_all /\ ObserveSelectAll
        \/ clear_all_inputs /\ ObserveOther

Spec == Init /\ [][Next]_vars

\* SpecSearch: the searches under every kind of query
NextSearch ==
        \/ \E t \in TypedTexts : type_text(t) /\ UNCHANGED last_toggle
        \/ \E p \in ImagePaths : upload_image(p) /\ UNCHANGED last_toggle
        \/ \E f \in TxtFilesOnDisk : \E r \in FileReads(f) :
             upload_txt_file(f, r) /\ UNCHANGED last_toggle
        \/ process_search /\ UNCHANGED last_toggle
        \/ \E n \in 1..Len(threads) : _run_search(n) /\ UNCHANGED last_toggle
        \/ mainloop_after /\ UNCHANGED last_toggle

SpecSearch == Init /\ [][NextSearch]_vars

\* process_search starts a search only while fewer than max were started
SearchCap(max) ==
    \/ Len(threads) < max
    \/ /\ Strip(text_entry) = ""
       /\ uploaded_image_path = PyNone
       /\ uploaded_txt_file = PyNoneDict

\* SpecDispatch: every kind of query, with up to MaxDispatch searches
NextDispatch ==
        \/ \E t \in TypedTexts : type_text(t) /\ UNCHANGED last_toggle
        \/ \E p \in ImagePaths : upload_image(p) /\ UNCHANGED last_toggle
        \/ \E f \in TxtFilesOnDisk : \E r \in FileReads(f) :
             upload_txt_file(f, r) /\ UNCHANGED last_toggle
        \/ SearchCap(MaxDispatch) /\ process_search /\ UNCHANGED last_toggle
        \/ \E n \in 1..Len(threads) : _run_search(n) /\ UNCHANGED last_toggle
        \/ mainloop_after /\ UNCHANGED last_toggle

SpecDispatch == Init /\ [][NextDispatch]_vars

\* SpecFailure: searches by uploaded text file, whose read can fail when
\* the worker opens it, with select_all between them
NextFailure ==
        \/ \E f \in TxtFilesOnDisk : \E r \in FileReads(f) :
             upload_txt_file(f, r) /\ UNCHANGED last_toggle
        \/ process_search /\ UNCHANGED last_toggle
        \/ \E n \in 1..Len(threads) : _run_search(n) /\ UNCHANGED last_toggle
        \/ mainloop_after /\ UNCHANGED last_toggle
        \/ select_all /\ UNCHANGED last_toggle

SpecFailure == Init /\ [][NextFailure]_vars

\* The searches under the program's scheduling: a started worker thread
\* runs to its end, and the Tk main loop runs every callback scheduled
\* with root.after(0, ...).  The user may stop acting at any time.
\* The steps of NextSearch in which thread n ends are the steps
\* _run_search(n), which is enabled exactly while thread n is running:
\* ThreadEnds(n) says what such a step does to threads.
ThreadEnds(n) ==
    /\ n <= Len(threads)
    /\ threads[n].pc = "running"
    /\ \E kind \in { "_update_results", "error_lambda" } :
         threads' = [ threads EXCEPT ![n] =
                        [ query_data |-> << >>, pc |-> "done",
                          handoffs |-> << kind >> ] ]
MainLoopRuns == mainloop_after /\ UNCHANGED last_toggle

SpecSearchFair ==
    /\ SpecSearch
    /\ \A n \in 1..MaxSearches : WF_threads(ThreadEnds(n))
    /\ WF_vars(MainLoopRuns)

\* SpecExport: exports of the results a text search has delivered
InitExport ==
    /\ use_mock_data \in BOOLEAN
    /\ database \in Databases
    /\ use_mock_data => database = DbTwo
    /\ text_entry \in TypedTexts \ { "" }
    /\ answer_entry = ""
    /\ current_task = "KIS"
    /\ uploaded_txt_file = PyNoneDict
    /\ uploaded_image_path = PyNone
    /\ LET outcome == Dispatch(use_mock_data, database,
                               QueryData(Strip(text_entry), PyNone,
                                         PyNoneDict), Ok(""))
           ui      == _update_results([ rec |-> << >>, sel |-> << >>,
                                        status |-> "Processing..." ],
                                      outcome.value)
       IN /\ outcome.ok
          /\ retrieved_images = ui.rec
          /\ selected_images = ui.sel
          /\ status_label = ui.status
          /\ threads = << [ query_data |-> << >>, pc |-> "done",
                            handoffs |-> << "_update_results" >> ] >>
    /\ after_queue = << >>
    /\ clock = 0
    /\ output_dirs = {}
    /\ output_files = {}
    /\ csv_written = NoFile
    /\ n_exports = 0
    /\ dialog = NoDialog
    /\ last_toggle = NoToggle

NextExport ==
        \/ \E id \in ToggleIds, on \in BOOLEAN :
             toggle_selection(id, on) /\ UNCHANGED last_toggle
        \/ clear_selection /\ UNCHANGED last_toggle
        \/ select_all /\ UNCHANGED last_toggle
        \/ \E a \in TypedAnswers : type_answer(a) /\ UNCHANGED last_toggle
        \/ \E t \in Tasks : choose_task(t) /\ UNCHANGED last_toggle
        \/ \E f \in TxtFilesOnDisk : \E r \in FileReads(f) :
             upload_txt_file(f, r) /\ UNCHANGED last_toggle
        \/ \E now \in Nows :
             /\ ExportCap(MaxExports)
             /\ generate_csv(now)
             /\ UNCHANGED last_toggle

SpecExport == InitExport /\ [][NextExport]_vars

\* Repeated exports of one Result Set: the user selects every frame, picks
\* tasks, uploads a text file and exports up to MaxArchive times.
NextArchive ==
        \/ select_all /\ UNCHANGED last_toggle
        \/ \E t \in Tasks : choose_task(t) /\ UNCHANGED last_toggle
        \/ \E f \in TxtFilesOnDisk : \E r \in FileReads(f) :
             upload_txt_file(f, r) /\ UNCHANGED last_toggle
        \/ \E now \in Nows :
             /\ ExportCap(MaxArchive)
             /\ generate_csv(now)
             /\ UNCHANGED last_toggle

SpecArchive == InitExport /\ [][NextArchive]_vars

\* Searches of one typed query against a generated dataset.
InitDataset ==
    /\ use_mock_data = FALSE
    /\ database \in DatasetStores
    /\ text_entry \in DatasetQueries
    /\ answer_entry = ""
    /\ current_task = "KIS"
    /\ uploaded_txt_file = PyNoneDict
    /\ uploaded_image_path = PyNone
    /\ retrieved_images = << >>
    /\ selected_images = << >>
    /\ status_label = "Ready"
    /\ threads = << >>
    /\ after_queue = << >>
    /\ clock = 0
    /\ output_dirs = {}
    /\ output_files = {}
    /\ csv_written = NoFile
    /\ n_exports = 0
    /\ dialog = NoDialog
    /\ last_toggle = NoToggle

NextDataset ==
        \/ process_search /\ UNCHANGED last_toggle
        \/ \E n \in 1..Len(threads) : _run_search(n) /\ UNCHANGED last_toggle
        \/ mainloop_after /\ UNCHANGED last_toggle

SpecDataset == InitDataset /\ [][NextDataset]_vars

\* "Remove punctuations" pressed, any number of times, on a text in the
\* query box.
InitPunctuated ==
    /\ use_mock_data = TRUE
    /\ database = DbTwo
    /\ text_entry \in PunctuatedTexts
    /\ answer_entry = ""
    /\ current_task = "KIS"
    /\ uploaded_txt_file = PyNoneDict
    /\ uploaded_image_path = PyNone
    /\ retrieved_images = << >>
    /\ selected_images = << >>
    /\ status_label = "Ready"
    /\ threads = << >>
    /\ after_queue = << >>
    /\ clock = 0
    /\ output_dirs = {}
    /\ output_files = {}
    /\ csv_written = NoFile
    /\ n_exports = 0
    /\ dialog = NoDialog
    /\ last_toggle = NoToggle

NextPunctuated == remove_punctuations /\ UNCHANGED last_toggle

SpecPunctuated == InitPunctuated /\ [][NextPunctuated]_vars
(***************************************************************************)
(* Properties.                                                             *)
(***************************************************************************)
IsSubseqOfIds(sel, records) ==
    \A k \in 1..Len(sel) : InList(sel[k], FrameIds(records))

NoDuplicates(list) ==
    \A i, j \in 1..Len(list) : i # j => list[i] # list[j]

\* the last operation on the Result Set was a call of toggle_selection
WasToggle == last_toggle.id # PyNone

\* C1: every frame id in selected_images is the frame_id of a record of
\* retrieved_images, in every reachable state.
C1_SelectedAreRecords == IsSubseqOfIds(selected_images, retrieved_images)

Running == { n \in 1..Len(threads) : threads[n].pc = "running" }

\* C2: at most one search worker is running at any time.
C2_AtMostOneRunning == Cardinality(Running) <= 1

\* C3: no two records of retrieved_images have the same frame_id.
C3_FrameIdsUnique == NoDuplicates(FrameIds(retrieved_images))

\* the callbacks of worker n waiting in the queue
Pending(n) == { k \in 1..Len(after_queue) : after_queue[k].req = n }

\* C4: a running worker has scheduled no hand-off; a finished worker has
\* scheduled exactly one, the success hand-off or the failure hand-off, and
\* the queue never holds two callbacks of one worker.
C4_OneOutcomePerSearch ==
    \A n \in 1..Len(threads) :
      /\ threads[n].pc \in { "running", "done" }
      /\ threads[n].pc = "running" =>
           threads[n].handoffs = << >> /\ Pending(n) = {}
      /\ threads[n].pc = "done" =>
           /\ Len(threads[n].handoffs) = 1
           /\ threads[n].handoffs[1] \in { "_update_results", "error_lambda" }
           /\ Cardinality(Pending(n)) <= 1
           /\ \A k \in Pending(n) :
                after_queue[k].kind = threads[n].handoffs[1]

\* one search has ended in the success hand-off and one in the failure
\* hand-off
C4_Witness ==
    /\ \E n \in 1..Len(threads) :
         threads[n].handoffs = << "_update_results" >>
    /\ \E n \in 1..Len(threads) :
         threads[n].handoffs = << "error_lambda" >>

\* the step runs _update_results: the main loop runs the head of the queue,
\* or process_search (root.update()) runs the whole queue
ResultsApplied ==
    \/ /\ Len(after_queue) > 0
       /\ Head(after_queue).kind = "_update_results"
       /\ after_queue' = Tail(after_queue)
       /\ threads' = threads
    \/ /\ \E k \in 1..Len(after_queue) :
            after_queue[k].kind = "_update_results"
       /\ after_queue' = << >>
       /\ Len(threads') = Len(threads) + 1

\* C5: right after a search result is applied, selected_images is empty.
C5_ReplaceResetsSelection ==
    [][ ResultsApplied => selected_images' = << >> ]_vars

\* a result was applied over a selection that was not empty
C5_Witness ==
    /\ last_toggle = NotToggle(last_toggle.sel)
    /\ Len(last_toggle.sel) > 0
    /\ Len(retrieved_images) > 0
    /\ selected_images = << >>
    /\ status_label = "Retrieved " \o ToString(Len(retrieved_images))
                        \o " frames"

\* C6 as stated: after toggle_selection(id, True); toggle_selection(id,
\* False) selected_images is what it was before the two calls, also when id
\* was selected before them.
C6_RoundTripRestores ==
    last_toggle.round_trip => selected_images = last_toggle.sel0

\* C6: after toggle_selection(id, True); toggle_selection(id, False), with
\* id not in selected_images before the two calls, selected_images is what
\* it was before them.
C6_RoundTripRestoresUnselected ==
    (last_toggle.round_trip /\ ~InList(last_toggle.id, last_toggle.sel0))
      => selected_images = last_toggle.sel0

\* a round trip on an id that was not selected, over a selection that holds
\* another id
C6_Witness ==
    /\ last_toggle.round_trip
    /\ ~InList(last_toggle.id, last_toggle.sel0)
    /\ Len(last_toggle.sel0) > 0
    /\ selected_images = last_toggle.sel0

\* C7: toggle_selection with an id that no record of retrieved_images has
\* leaves selected_images as it was.
C7_ToggleAbsentIsNoOp ==
    (WasToggle /\ ~InList(last_toggle.id, FrameIds(retrieved_images)))
      => selected_images = last_toggle.sel

\* C8: selected_images holds no frame id twice, and after
\* toggle_selection(id, False) the id is not in selected_images.
C8_SelectionIsSet ==
    /\ NoDuplicates(selected_images)
    /\ (WasToggle /\ ~last_toggle.on)
         => ~InList(last_toggle.id, selected_images)

\* the step is a call of generate_csv that showed a message box
GenerateCsvRan ==
    /\ \/ dialog'.kind = "info"
       \/ dialog' = ShowWarning("No frames selected")
       \/ dialog' = ShowWarning("Answer is required for QnA task")
    /\ UNCHANGED input_vars

\* C9: generate_csv with an empty selection, or with the task QnA and an
\* empty or whitespace-only answer, creates no directory and writes no file,
\* and leaves retrieved_images and selected_images as they were.
C9_RejectedExportWritesNothing ==
    [][ ( /\ GenerateCsvRan
          /\ \/ Len(selected_images) = 0
             \/ current_task = "QnA" /\ Strip(answer_entry) = "" )
        => /\ UNCHANGED << output_dirs, output_files, n_exports >>
           /\ UNCHANGED result_vars
           /\ csv_written' = NoFile
           /\ dialog'.kind = "warning" ]_vars

\* a QnA export with a whitespace-only answer over a selection that is not
\* empty was rejected, and nothing is on disk
C9_Witness ==
    /\ dialog = ShowWarning("Answer is required for QnA task")
    /\ current_task = "QnA"
    /\ Len(answer_entry) > 0
    /\ Len(selected_images) > 0
    /\ output_dirs = {} /\ output_files = {}

\* C10: a KIS export writes as many rows as records are selected, each the
\* video name and the frame id of a selected record.
C10_KisOneRowPerSelected ==
    (csv_written # NoFile /\ current_task = "KIS")
      => /\ Len(csv_written.rows) = Len(selected_images)
         /\ \A k \in 1..Len(csv_written.rows) :
              /\ Len(csv_written.rows[k]) = 2
              /\ InList(csv_written.rows[k][2], selected_images)

\* the frame ids of a TRAKE row: its fields after the video name that are
\* not padding
RowFrames(row) == SelectSeq(Tail(row), LAMBDA f : f # "")

\* the places (row, field) of the written rows that hold frame id id
PlacesOf(rows, id) ==
    { p \in { << i, k >> : i \in 1..Len(rows), k \in 1..MockCount + 2 } :
        /\ p[2] >= 2 /\ p[2] <= Len(rows[p[1]])
        /\ rows[p[1]][p[2]] = id }

\* the last handler was a TRAKE export
TrakeWritten == csv_written # NoFile /\ current_task = "TRAKE"

\* C11: a TRAKE export writes one row per distinct video name among the
\* selected records: the rows have distinct video names; the frame id of
\* every selected record is written exactly once, in the row of its record's
\* video, and nothing else is written; the frame ids come first and every
\* row is padded
\* with empty fields to the width 1 + max_frames, max_frames the size of the
\* largest group.
C11_TrakeOneRowPerVideo ==
    TrakeWritten =>
      LET rows == csv_written.rows
          max_frames == MaxOf({ 0 } \cup { Len(RowFrames(rows[i])) :
                                             i \in 1..Len(rows) })
      IN /\ \A i, j \in 1..Len(rows) : i # j => rows[i][1] # rows[j][1]
         /\ \A i \in 1..Len(rows) :
              /\ Len(RowFrames(rows[i])) >= 1
              /\ Len(rows[i]) = 1 + max_frames
              /\ SubSeq(rows[i], 2, 1 + Len(RowFrames(rows[i])))
                   = RowFrames(rows[i])
              /\ \A k \in 1..Len(RowFrames(rows[i])) :
                   /\ InList(RowFrames(rows[i])[k], selected_images)
                   /\ \E n \in 1..Len(retrieved_images) :
                        /\ retrieved_images[n].frame_id
                             = RowFrames(rows[i])[k]
                        /\ VideoNameOf(retrieved_images[n]) = rows[i][1]
         /\ \A s \in 1..Len(selected_images) :
              InList(selected_images[s], FrameIds(retrieved_images))
                => Cardinality(PlacesOf(rows, selected_images[s])) = 1

\* C12: in a TRAKE export the frame ids of each row stand in the order in
\* which they stand in selected_images.
C12_TrakeKeepsSelectionOrder ==
    TrakeWritten =>
      \A i \in 1..Len(csv_written.rows) :
        LET frames == RowFrames(csv_written.rows[i]) IN
        frames = SelectSeq(selected_images, LAMBDA id : InList(id, frames))

\* the step is a call of generate_csv that reached create_csv_file
Exported == n_exports' = n_exports + 1

\* C13: every export writes into a directory that no earlier export wrote
\* into.
C13_FreshDirectory ==
    [][ Exported => ~(csv_written'.dir \in output_dirs) ]_vars

\* C14: the Result Set of the export specifications was produced by a typed
\* query, so every export of it, also after a text file was uploaded, has
\* the timestamp-task name and not the name of the text file.
C14_NameFollowsQueryOrigin ==
    [][ Exported =>
          csv_written'.name
            = Strftime(clock') \o "-" \o Lower(current_task) \o ".csv" ]_vars

\* the result of a search has been handed to _update_results and shown
Delivered ==
    \E n \in 1..Len(threads) :
      /\ threads[n].handoffs = << "_update_results" >>
      /\ Pending(n) = {}

\* metadata file m matches the query: it parses and its text holds the query
Matches(m, text_query) ==
    /\ m.parses
    /\ IsSubstr(Lower(text_query), Lower(PyStr(m.data)))

\* C15: in the result of search_database_text, a metadata file that matches
\* the query and whose keyframes directory holds n .jpg files has exactly
\* min(n, 10) records, in listing order, with the video name of the file,
\* the frame ids of the first keyframes and the frame numbers 0, 1, ...; a
\* file that does not match has none; the records stand in the order of the
\* metadata listing and every record belongs to a metadata file.
C15_RecordsPerMetadataFile ==
    Delivered =>
      LET text_query == Strip(text_entry)
          listing    == database.media_info
          VideoOf(m) == SplitExt(m.name)
          RecordsOf(m) ==
            SelectSeq(retrieved_images,
                      LAMBDA r : r.video_name = VideoOf(m))
          Jpgs(m) ==
            SelectSeq(ListKeyframes(database, VideoOf(m)),
                      LAMBDA f : EndsWith(f, ".jpg"))
          Count(m) == IF Len(Jpgs(m)) < 10 THEN Len(Jpgs(m)) ELSE 10
      IN /\ \A i \in 1..Len(listing) :
              IF Matches(listing[i], text_query)
              THEN /\ Len(RecordsOf(listing[i])) = Count(listing[i])
                   /\ \A k \in 1..Len(RecordsOf(listing[i])) :
                        /\ RecordsOf(listing[i])[k].frame_id
                             = SplitExt(Jpgs(listing[i])[k])
                        /\ RecordsOf(listing[i])[k].metadata.frame_number
                             = k - 1
              ELSE Len(RecordsOf(listing[i])) = 0
         /\ \A a, b \in 1..Len(retrieved_images) :
              a < b =>
                \E i, j \in 1..Len(listing) :
                  /\ i <= j
                  /\ VideoOf(listing[i]) = retrieved_images[a].video_name
                  /\ VideoOf(listing[j]) = retrieved_images[b].video_name
         /\ \A a \in 1..Len(retrieved_images) :
              \E i \in 1..Len(listing) :
                VideoOf(listing[i]) = retrieved_images[a].video_name

\* the result of a search is shown:
\* keyframes/v1 holds more than 10 .jpg files and 10 records of v1 are in it,
\* and a file of the listing did not match
C15_Witness ==
    /\ Delivered
    /\ Len(FilterSuffix(ListKeyframes(database, "v1"), ".jpg")) > 10
    /\ Len(SelectSeq(retrieved_images, LAMBDA r : r.video_name = "v1")) = 10
    /\ \E i \in 1..Len(database.media_info) :
         ~Matches(database.media_info[i], Strip(text_entry))

\* the dataset without the metadata files that fail to parse
WithoutUnparsable(db) ==
    [ db EXCEPT !.media_info = SelectSeq(@, LAMBDA m : m.parses) ]

\* C17: with a metadata file that fails to parse anywhere in the listing,
\* no search ends in the failure hand-off, and the result shown is the
\* result of the same search over the dataset without that file.
C17_UnparsableFileIsSkipped ==
    /\ \A n \in 1..Len(threads) :
         threads[n].pc = "done" =>
           threads[n].handoffs = << "_update_results" >>
    /\ Delivered =>
         retrieved_images
           = search_database_text(WithoutUnparsable(database),
                                  Strip(text_entry)).value

\* the result of a search is shown over a listing with the unparsable file
\* between two files that match, and it holds records of both
C17_Witness ==
    /\ Delivered
    /\ Len(database.media_info) = 3
    /\ ~database.media_info[2].parses
    /\ \E a, b \in 1..Len(retrieved_images) :
         /\ retrieved_images[a].video_name
              = SplitExt(database.media_info[1].name)
         /\ retrieved_images[b].video_name
              = SplitExt(database.media_info[3].name)

\* the program searches a dataset root that has no media-info directory
MissingMediaInfo == ~use_mock_data /\ ~database.media_info_exists

\* C16: with no media-info directory under the dataset root, every search
\* that ended has ended in the failure hand-off, every callback scheduled is
\* the failure callback, and the Result Set was never replaced: no
\* "Retrieved ..." status, retrieved_images as at the start.
C16_MissingMediaInfoFails ==
    MissingMediaInfo =>
      /\ \A n \in 1..Len(threads) :
           threads[n].pc = "done" =>
             threads[n].handoffs = << "error_lambda" >>
      /\ \A k \in 1..Len(after_queue) :
           /\ after_queue[k].kind = "error_lambda"
           /\ IsSubstr("Database search failed: Media info folder not found",
                       after_queue[k].error)
              \/ IsSubstr("No such file", after_queue[k].error)
      /\ retrieved_images = << >>
      /\ ~IsSubstr("Retrieved", status_label)

\* a search against a root without media-info has ended and its failure
\* callback has run
C16_Witness ==
    /\ MissingMediaInfo
    /\ \E n \in 1..Len(threads) :
         /\ threads[n].handoffs = << "error_lambda" >>
         /\ Pending(n) = {}

\* the failure callback of a search is scheduled while the status shows
\* "Processing..."
FailureMarshalled ==
    /\ status_label = "Processing..."
    /\ \E k \in 1..Len(after_queue) : after_queue[k].kind = "error_lambda"

\* C18: once the failure of a background search is marshalled to the UI
\* thread, the status does not stay at "Processing...": it eventually shows
\* another text (the error message, when nothing else is going on).
C18_FailureEventuallyShown ==
    FailureMarshalled ~> (status_label # "Processing...")

\* the video name an export row of record img must carry
ResolvedName(img) ==
    IF "metadata" \in DOMAIN img /\ "video_name" \in DOMAIN img.metadata
    THEN img.metadata.video_name
    ELSE IF "video_name" \in DOMAIN img THEN img.video_name
    ELSE "unknown"

\* the frame ids written in a row of an export of task
FramesOfRow(task, row) ==
    IF task = "TRAKE" THEN RowFrames(row) ELSE << row[2] >>

\* C19: in every row of an export, of every task, the video name written is
\* the resolved name (metadata.video_name, else video_name, else "unknown")
\* of a record that has the frame id written in that row.
C19_VideoNameResolution ==
    csv_written # NoFile =>
      \A i \in 1..Len(csv_written.rows) :
        LET row == csv_written.rows[i]
            ids == FramesOfRow(current_task, row)
        IN /\ Len(ids) >= 1
           /\ \A k \in 1..Len(ids) :
                \E n \in 1..Len(retrieved_images) :
                  /\ retrieved_images[n].frame_id = ids[k]
                  /\ ResolvedName(retrieved_images[n]) = row[1]

\* an export has written a row of a record whose metadata.video_name
\* differs from its own video_name
C19_Witness ==
    /\ csv_written # NoFile
    /\ \E i \in 1..Len(csv_written.rows) :
         \E n \in 1..Len(retrieved_images) :
           /\ retrieved_images[n].frame_id = csv_written.rows[i][2]
           /\ retrieved_images[n].metadata.video_name = csv_written.rows[i][1]
           /\ retrieved_images[n].video_name # csv_written.rows[i][1]

\* text holds no punctuation character
NoPunctuation(text) ==
    \A i \in 1..Len(text) : ~IsPunctuation(Char(text, i))

\* text is trimmed and its words are separated by single spaces
SingleSpaced(text) ==
    /\ Strip(text) = text
    /\ \A i \in 1..Len(text) :
         Char(text, i) \in Whitespace
           => Char(text, i) = " " /\ ~(Char(text, i + 1) \in Whitespace)

\* C20: whatever the query box holds, a second remove_punctuations gives
\* the text the first one gave; the text it leaves holds no ASCII
\* punctuation and, when the box was not blank, is trimmed with single
\* spaces between words; "a, b!  c" becomes "a b c".
C20_NormalizeIdempotent ==
    [][ /\ CleanedEntry(text_entry') = text_entry'
        /\ NoPunctuation(text_entry')
        /\ Strip(text_entry) # "" => SingleSpaced(text_entry')
        /\ text_entry = "a, b!  c" => text_entry' = "a b c" ]_vars

\* remove_punctuations has cleaned "a, b!  c": no text of the query box at
\* the start reads "a b c"
C20_Witness ==
    /\ text_entry = "a b c"
    /\ ~("a b c" \in PunctuatedTexts)
    /\ dialog = NoDialog

\* the last operation on the Result Set was a call of select_all
WasSelectAll == last_toggle.id = PyNone /\ last_toggle.on

\* a step that is a call of select_all, started from the current selection
SelectAllStep ==
    /\ last_toggle'.id = PyNone
    /\ last_toggle'.on
    /\ last_toggle'.sel = selected_images

\* C21: a call of select_all leaves retrieved_images as it was, and after it
\* the frame ids in selected_images are exactly the frame ids of the records.
C21_SelectAllSelectsExactlyTheRecords ==
    [][ SelectAllStep =>
          /\ retrieved_images' = retrieved_images
          /\ { selected_images'[k] : k \in 1..Len(selected_images') }
               = { retrieved_images[k].frame_id :
                     k \in 1..Len(retrieved_images) } ]_vars

\* select_all was called over records while the selection held an id of no
\* record, and that id is gone
C21_Witness ==
    /\ WasSelectAll
    /\ InList(GhostId, last_toggle.sel)
    /\ Len(retrieved_images) > 0
    /\ Len(selected_images) = Len(retrieved_images)
    /\ ~InList(GhostId, selected_images)

\* the search string of a query: the uploaded text file's contents (without
\* the surrounding whitespace, as for typed text), else the typed text, else
\* the substitute string of an image-only query
SearchString(query_data) ==
    IF HasKey(query_data, "txt_file")
    THEN Strip(FileAt(query_data["txt_file"].path).contents)
    ELSE IF HasKey(query_data, "text") THEN query_data["text"]
    ELSE "image_search"

\* what a typed-text search for the query's search string returns
TextPath(query_data) ==
    call_backend_text(use_mock_data, database, SearchString(query_data))

\* the step in which worker n runs its search and hands the outcome over
DispatchStep(n) ==
    /\ threads[n].pc = "running"
    /\ threads'[n].pc = "done"

\* no text, no image and no text file
NoInput ==
    /\ Strip(text_entry) = ""
    /\ uploaded_image_path = PyNone
    /\ uploaded_txt_file = PyNoneDict

\* C22: a worker hands over exactly what a text search for its query's
\* search string returns: the uploaded text file's contents when there is a
\* text file (whatever the text box and the image hold), the typed text for
\* text plus image, a fixed string for an image alone; a search that fails
\* without a text file is one whose text search fails.  With no text, image
\* or text file no step starts a search.
C22_DispatchRunsTextPath ==
    [][ /\ \A n \in 1..Len(threads) :
             DispatchStep(n) =>
               LET query_data == threads[n].query_data
                   cb         == after_queue'[Len(after_queue')]
               IN /\ Len(after_queue') = Len(after_queue) + 1
                  /\ cb.req = n
                  /\ cb.kind = "_update_results" =>
                       /\ TextPath(query_data).ok
                       /\ cb.results = TextPath(query_data).value
                  /\ (cb.kind # "_update_results"
                        /\ ~HasKey(query_data, "txt_file")) =>
                       ~TextPath(query_data).ok
        /\ NoInput => Len(threads') = Len(threads) ]_vars

\* against the dataset, with "cat" in the text box, an image and a text file
\* that reads " dog\n", the search delivered the one frame that matches "dog"
C22_Witness ==
    /\ ~use_mock_data
    /\ uploaded_txt_file # PyNoneDict
    /\ Strip(text_entry) = "cat"
    /\ uploaded_image_path # PyNone
    /\ \E n \in 1..Len(threads) :
         /\ threads[n].pc = "done"
         /\ threads[n].handoffs = << "_update_results" >>
    /\ Len(retrieved_images) = 1
    /\ retrieved_images = search_database_text(database, "dog").value
    /\ retrieved_images # search_database_text(database, "cat").value

\* search m succeeded and its results have been applied
Settled(m) ==
    /\ threads[m].pc = "done"
    /\ threads[m].handoffs = << "_update_results" >>
    /\ Pending(m) = {}

\* the callbacks of the queue that the step runs, oldest first
AppliedInStep ==
    1..(IF Len(after_queue') < Len(after_queue)
        THEN Len(after_queue) - Len(after_queue') ELSE 0)

\* C23: the results a step leaves in retrieved_images are never those of a
\* search issued before one whose results were applied already (earlier
\* in the step, or before it) and are different; so once every search has
\* delivered, retrieved_images holds the results of the last one issued.
C23_LatestSearchWins ==
    [][ \A k \in AppliedInStep :
          ( /\ after_queue[k].kind = "_update_results"
            /\ \A k2 \in AppliedInStep :
                 k2 > k => after_queue[k2].kind # "_update_results" )
          => /\ \A k1 \in 1..(k - 1) :
                  ( /\ after_queue[k1].kind = "_update_results"
                    /\ after_queue[k1].req > after_queue[k].req )
                  => after_queue[k1].results = after_queue[k].results
             /\ (\E m \in 1..Len(threads) :
                   m > after_queue[k].req /\ Settled(m))
                  => retrieved_images' = retrieved_images ]_vars

\* the step runs callbacks of the queue, and all of them are failure callbacks
FailureDeliveredStep ==
    /\ AppliedInStep # {}
    /\ \A k \in AppliedInStep : after_queue[k].kind = "error_lambda"

\* the step in which a worker's search fails
FailedStep ==
    \E n \in 1..Len(threads) :
      /\ DispatchStep(n)
      /\ threads'[n].handoffs = << "error_lambda" >>

\* C24: neither the step in which a search fails nor the step that delivers
\* the failure to the UI thread changes retrieved_images or selected_images.
C24_FailureKeepsResultSet ==
    [][ (FailedStep \/ FailureDeliveredStep)
          => /\ retrieved_images' = retrieved_images
             /\ selected_images' = selected_images ]_vars

\* a failure was delivered and shown while results were displayed and
\* selected, and they still are
C24_Witness ==
    /\ \E n \in 1..Len(threads) :
         /\ threads[n].handoffs = << "error_lambda" >>
         /\ Pending(n) = {}
    /\ IsSubstr("Error: ", status_label)
    /\ Len(retrieved_images) > 0
    /\ Len(selected_images) = Len(retrieved_images)

\* clear_all_inputs was the last handler to write the status, so no search
\* has been issued since: process_search, the callbacks and the selection
\* handlers all replace the text "Ready" that clear_all_inputs (and the
\* construction) leaves in status_label
ClearedAndIdle == status_label = "Ready"

\* C25: from clear_all_inputs until process_search starts a new search,
\* retrieved_images stays empty: no step other than the start of a new
\* search puts records into it, a search in flight included.
C25_ClearedStaysEmpty ==
    [][ (ClearedAndIdle /\ Len(threads') = Len(threads))
          => retrieved_images' = << >> ]_vars
====
